---------------------------- MODULE Spec2Model ----------------------------
(***************************************************************************)
(* Model of the capital-structure chart editor:                            *)
(*   - the segment panel (DraggableSegmentPanel) and the control panel     *)
(*     (ControlPanel) editing the chart configuration,                     *)
(*   - renderLayer of TriangleChart, which tessellates one layer's         *)
(*     trapezoid into area-proportional polygons.                          *)
(* JavaScript numbers are modelled as exact rationals [n, d] in lowest     *)
(* terms, extended with NaN (0/0) and the infinities (1/0, -1/0), so that  *)
(* "within rounding tolerance" in a claim reads as exact equality here.    *)
(***************************************************************************)
EXTENDS Integers, Sequences, FiniteSets, TLC

(***************************************************************************)
(* Bounds of the model.                                                    *)
(***************************************************************************)
\* Editor operations performed in one behaviour.
MaxSteps == 3
\* Layers a chart may grow to (guard of the add-layer actions).
MaxLayers == 4
\* Segments a layer may grow to through the add-segment actions.
MaxSegments == 4
\* Segments of the layer handed to renderLayer.
MaxRenderSegments == 3
\* layers of a chart whose geometry is computed
MaxGeometryLayers == 3
\* segments handed to normalizeSegments on its own
MaxNormalizeSegments == 3
\* times normalizeSegments is applied to its own result
MaxApplications == 2

(***************************************************************************)
(* JavaScript numbers.                                                     *)
(***************************************************************************)
Abs(i) == IF i < 0 THEN -i ELSE i

Sign(i) == IF i < 0 THEN -1 ELSE IF i > 0 THEN 1 ELSE 0

RECURSIVE GCD(_, _)
GCD(a, b) == IF b = 0 THEN a ELSE GCD(b, a % b)

\* The number n/d in lowest terms with a positive denominator; d = 0 gives
\* NaN (n = 0) or an infinity (the sign of n).
Num(n, d) ==
  IF d = 0 THEN [n |-> Sign(n), d |-> 0]
  ELSE LET g == GCD(Abs(n), Abs(d))
           s == IF d < 0 THEN -1 ELSE 1
       IN  [n |-> s * (n \div g), d |-> s * (d \div g)]

N(i) == [n |-> i, d |-> 1]

Zero == N(0)

Hundred == N(100)

NaN == [n |-> 0, d |-> 0]

\* The value of an absent optional field (layer.percent, targetIndex).
Undefined == [n |-> 0, d |-> -1]

IsNaN(x) == x.d = 0 /\ x.n = 0

IsFinite(x) == x.d > 0

\* x + y
Add(x, y) ==
  IF IsNaN(x) \/ IsNaN(y) THEN NaN
  ELSE IF x.d = 0 THEN (IF y.d = 0 /\ y.n # x.n THEN NaN ELSE x)
  ELSE IF y.d = 0 THEN y
  ELSE LET g == GCD(x.d, y.d)
       IN  Num(x.n * (y.d \div g) + y.n * (x.d \div g), (x.d \div g) * y.d)

Neg(x) == [n |-> -x.n, d |-> x.d]

\* x - y
Sub(x, y) == Add(x, Neg(y))

\* x * y
Mul(x, y) ==
  IF IsNaN(x) \/ IsNaN(y) THEN NaN
  ELSE IF x.d = 0 \/ y.d = 0 THEN Num(Sign(x.n) * Sign(y.n), 0)
  ELSE LET g1 == GCD(Abs(x.n), y.d)
           g2 == GCD(Abs(y.n), x.d)
       IN  Num((x.n \div g1) * (y.n \div g2), (x.d \div g2) * (y.d \div g1))

\* x / y: a division by zero gives NaN (0/0) or an infinity, as in JavaScript.
Div(x, y) ==
  IF IsNaN(x) \/ IsNaN(y) THEN NaN
  ELSE IF y.d = 0 THEN (IF x.d = 0 THEN NaN ELSE Zero)
  ELSE IF y.n = 0 THEN Num(Sign(x.n), 0)
  ELSE IF x.d = 0 THEN Num(Sign(x.n) * Sign(y.n), 0)
  ELSE Mul(x, Num(y.d, y.n))

\* x < y (false when either is NaN)
Lt(x, y) ==
  /\ ~IsNaN(x)
  /\ ~IsNaN(y)
  /\ IF x.d = 0 \/ y.d = 0
     THEN (IF x.d = 0 /\ y.d = 0 THEN x.n < y.n
           ELSE IF x.d = 0 THEN x.n < 0 ELSE y.n > 0)
     ELSE LET g == GCD(x.d, y.d)
          IN  x.n * (y.d \div g) < y.n * (x.d \div g)

\* x <= y (false when either is NaN)
Le(x, y) ==
  /\ ~IsNaN(x)
  /\ ~IsNaN(y)
  /\ IF x.d = 0 \/ y.d = 0
     THEN (IF x.d = 0 /\ y.d = 0 THEN x.n <= y.n
           ELSE IF x.d = 0 THEN x.n < 0 ELSE y.n > 0)
     ELSE LET g == GCD(x.d, y.d)
          IN  x.n * (y.d \div g) <= y.n * (x.d \div g)

\* Math.min(x, y)
Min(x, y) == IF IsNaN(x) \/ IsNaN(y) THEN NaN ELSE IF Lt(y, x) THEN y ELSE x

\* Math.max(x, y)
Max(x, y) == IF IsNaN(x) \/ IsNaN(y) THEN NaN ELSE IF Lt(x, y) THEN y ELSE x

\* Math.abs(x)
MathAbs(x) == [n |-> Abs(x.n), d |-> x.d]

\* x || 0 on an optional number: undefined, NaN and 0 are falsy.
OrZero(x) == IF x = Undefined \/ IsNaN(x) \/ x.n = 0 THEN Zero ELSE x

\* Mutant of Clamp: the input is taken as it comes.
ClampMissing(percent) == percent

\* Math.max(0, Math.min(100, percent))
Clamp(percent) == Max(Zero, Min(Hundred, percent))

(***************************************************************************)
(* Tables for the strings the code builds.                                 *)
(***************************************************************************)
PRESET_COLORS ==
  << "#22c55e", "#4ade80", "#86efac", "#bbf7d0",
     "#3b82f6", "#60a5fa", "#93c5fd", "#bfdbfe",
     "#f97316", "#fb923c", "#fdba74", "#fed7aa",
     "#a855f7", "#c084fc", "#d8b4fe", "#e9d5ff",
     "#ef4444", "#f87171", "#fca5a5", "#fecaca",
     "#eab308", "#facc15", "#fde047", "#fef08a" >>

\* PRESET_COLORS[i % PRESET_COLORS.length], i counted from 0
PresetColor(i) == PRESET_COLORS[(i % Len(PRESET_COLORS)) + 1]

\* `Layer ${k}`
LayerName(k) ==
  << "Layer 1", "Layer 2", "Layer 3", "Layer 4", "Layer 5", "Layer 6",
     "Layer 7", "Layer 8", "Layer 9", "Layer 10" >>[k]

\* `Segment ${k}`
SegmentLabel(k) ==
  << "Segment 1", "Segment 2", "Segment 3", "Segment 4", "Segment 5",
     "Segment 6", "Segment 7", "Segment 8", "Segment 9", "Segment 10",
     "Segment 11", "Segment 12" >>[k]

\* The k-th string drawn by generateId(): random strings, taken to be fresh.
generateId(k) ==
  << "g1", "g2", "g3", "g4", "g5", "g6", "g7", "g8", "g9", "g10", "g11",
     "g12", "g13", "g14", "g15", "g16", "g17", "g18", "g19", "g20" >>[k]


(***************************************************************************)
(* The chart configuration (lib/chart-types).                              *)
(***************************************************************************)
Segment(id, label, percent, color) ==
  [id |-> id, label |-> label, percent |-> percent, color |-> color]

Layer(id, name, height, percent, segments) ==
  [id |-> id, name |-> name, height |-> height, percent |-> percent,
   segments |-> segments]

defaultChartConfig ==
  [layers |->
    << Layer("L1", "Layer 1", N(100), Num(333, 10),
             << Segment("s1", "Common", Num(556, 10), "#22c55e"),
                Segment("s2", "Options", Num(111, 10), "#4ade80"),
                Segment("s3", "Preferred A", Num(333, 10), "#86efac") >>),
       Layer("L2", "Layer 2", N(120), Num(333, 10),
             << Segment("s1", "Common", N(40), "#3b82f6"),
                Segment("s2", "Preferred B", N(60), "#60a5fa") >>),
       Layer("L3", "Layer 3", N(140), Num(334, 10),
             << Segment("s1", "Common", N(25), "#f97316"),
                Segment("s2", "Options", N(25), "#fb923c"),
                Segment("s3", "Preferred C", N(50), "#fdba74") >>) >>]

\* The value undefined as an element of a segments array (a splice that
\* removed nothing hands it on).
UndefinedSegment == Segment("undefined", "undefined", NaN, "undefined")

\* segments.reduce((sum, s) => sum + s.percent, 0)
RECURSIVE SumPercent(_)
SumPercent(segments) ==
  IF segments = << >> THEN Zero
  ELSE Add(SumPercent(SubSeq(segments, 1, Len(segments) - 1)),
           segments[Len(segments)].percent)

\* segments.reduce((sum, seg, i) => i === segmentIndex ? sum : sum + seg.percent, 0)
RECURSIVE SumOtherSegments(_, _, _)
SumOtherSegments(segments, segmentIndex, k) ==
  IF k = 0 THEN Zero
  ELSE LET rest == SumOtherSegments(segments, segmentIndex, k - 1)
       IN  IF k - 1 = segmentIndex THEN rest
           ELSE Add(rest, segments[k].percent)

\* layers.reduce((sum, layer) => layer.id === layerId ? sum : sum + (layer.percent || 0), 0)
RECURSIVE SumOtherLayers(_, _, _)
SumOtherLayers(layers, layerId, k) ==
  IF k = 0 THEN Zero
  ELSE LET rest == SumOtherLayers(layers, layerId, k - 1)
       IN  IF layers[k].id = layerId THEN rest
           ELSE Add(rest, OrZero(layers[k].percent))

\* Mutant of normalizeSegments: the shares are left as fractions of 1.
normalizeSegmentsFraction(segments) ==
  LET total == SumPercent(segments)
  IN  IF total = Zero THEN segments
      ELSE [i \in DOMAIN segments |->
              [segments[i] EXCEPT !.percent = Div(@, total)]]

\* Mutant of normalizeSegments: the percents are not divided by their total.
normalizeSegmentsUndivided(segments) ==
  LET total == SumPercent(segments)
  IN  IF total = Zero THEN segments
      ELSE [i \in DOMAIN segments |->
              [segments[i] EXCEPT !.percent = Mul(@, Hundred)]]

\* normalizeSegments of lib/chart-types
normalizeSegments(segments) ==
  LET total == SumPercent(segments)
  IN  IF total = Zero THEN segments
      ELSE [i \in DOMAIN segments |->
              [segments[i] EXCEPT !.percent = Mul(Div(@, total), Hundred)]]

\* Mutant of panelNormalizeSegments: a zero total is not set apart.
panelNormalizeSegmentsUnguarded(segments) ==
  IF Len(segments) = 0 THEN << >>
  ELSE LET total == SumPercent(segments)
       IN  [i \in DOMAIN segments |->
              [segments[i] EXCEPT !.percent = Mul(Div(@, total), Hundred)]]

\* normalizeSegments of DraggableSegmentPanel
panelNormalizeSegments(segments) ==
  IF Len(segments) = 0 THEN << >>
  ELSE LET total == SumPercent(segments)
       IN  IF total = Zero THEN segments
           ELSE [i \in DOMAIN segments |->
                   [segments[i] EXCEPT !.percent = Mul(Div(@, total), Hundred)]]

\* layers.findIndex(l => l.id === id), counted from 1; 0 when there is none
FindLayerIndex(layers, id) ==
  IF \E i \in DOMAIN layers : layers[i].id = id
  THEN CHOOSE i \in DOMAIN layers :
         /\ layers[i].id = id
         /\ \A j \in 1..(i - 1) : layers[j].id # id
  ELSE 0

\* array.splice(index, 1), index counted from 0: the array left
SpliceOut(s, index) ==
  IF index >= Len(s) THEN s
  ELSE SubSeq(s, 1, index) \o SubSeq(s, index + 2, Len(s))

\* array.splice(index, 0, x), index counted from 0
SpliceIn(s, index, x) ==
  IF index >= Len(s) THEN Append(s, x)
  ELSE SubSeq(s, 1, index) \o << x >> \o SubSeq(s, index + 1, Len(s))

\* array.filter((_, i) => i !== index), index counted from 0
FilterOutIndex(s, index) ==
  IF index < 0 \/ index >= Len(s) THEN s
  ELSE SubSeq(s, 1, index) \o SubSeq(s, index + 2, Len(s))

\* array.filter(x => x.id !== id)
RECURSIVE FilterOutId(_, _)
FilterOutId(s, id) ==
  IF s = << >> THEN << >>
  ELSE LET rest == FilterOutId(SubSeq(s, 1, Len(s) - 1), id)
           x == s[Len(s)]
       IN  IF x.id # id THEN Append(rest, x) ELSE rest

(***************************************************************************)
(* State.                                                                  *)
(***************************************************************************)
VARIABLES
  config,       \* the chart configuration the panels are handed (its layers)
  draggedItem,  \* DraggableSegmentPanel: the segment picked up, or NoDrag
  isDragging,   \* DraggableSegmentPanel: a drag is under way
  crashed,      \* a handler threw after changing the configuration in place
  last,         \* the last handler run, its arguments and the layers before it
  snapshot,     \* what the configuration object handed to that handler holds now
  steps,        \* handlers run so far
  nextId,       \* number of strings generateId() has drawn
  layerData,    \* renderLayer: the layer's corners, segments and fan settings
  segIndex,     \* renderLayer: index of the next segment of the forEach
  currentPercent,   \* renderLayer: percent covered by the segments done
  segmentPolygons,  \* renderLayer: what was computed and drawn per segment
  normInput,    \* normalizeSegments: the segments handed in
  normLib,      \* results of lib/chart-types normalizeSegments, applied in turn
  normPanel,    \* results of the panel's normalizeSegments, applied in turn
  geometryInput,    \* geometry: canvas height and layers of the chart
  currentY,         \* geometry: y reached by layers.forEach
  layerBoundaries   \* geometry: top, bottom and layer pushed per layer

editorVars ==
  << config, draggedItem, isDragging, crashed, last, snapshot, steps, nextId >>

renderVars == << layerData, segIndex, currentPercent, segmentPolygons >>

normalizeVars == << normInput, normLib, normPanel >>

geometryVars == << geometryInput, currentY, layerBoundaries >>

vars == << editorVars, renderVars, normalizeVars, geometryVars >>

\* draggedItem = null
NoDrag == [layerId |-> "null", segmentId |-> "null", segmentIndex |-> -1]

\* targetIndex === undefined
NoIndex == -1

\* The numbers a percent input can deliver (parseFloat(e.target.value) || 0).
PercentInputs == { N(-20), N(40), N(250) }

\* The texts typed into a name or label input.
TextInputs == { "" }

\* The record of a handler run: its name and arguments, and the layers and
\* the dragged item it found.
Ran(op, layerId, index, value, text) ==
  [op |-> op, layerId |-> layerId, index |-> index, value |-> value,
   text |-> text, before |-> config.layers, dragged |-> draggedItem]

\* No layer is being rendered.
RenderIdle ==
  /\ layerData = [layerOriginX |-> Zero, layerTopLeftX |-> Zero,
                  layerTopRightX |-> Zero, top |-> Zero, bottom |-> Zero,
                  segments |-> << >>, showDottedSeparators |-> FALSE]
  /\ segIndex = 0
  /\ currentPercent = Zero
  /\ segmentPolygons = << >>

\* normalizeSegments is not being applied.
NormalizeIdle ==
  /\ normInput = << >>
  /\ normLib = << >>
  /\ normPanel = << >>

\* The chart's geometry is not being computed.
GeometryIdle ==
  /\ geometryInput = [canvasHeight |-> Zero, layers |-> << >>]
  /\ currentY = Zero
  /\ layerBoundaries = << >>

EditorInit ==
  /\ config = defaultChartConfig
  /\ draggedItem = NoDrag
  /\ isDragging = FALSE
  /\ crashed = FALSE
  /\ last = [op |-> "init", layerId |-> "", index |-> NoIndex, value |-> Zero,
             text |-> "",
             before |-> defaultChartConfig.layers, dragged |-> NoDrag]
  /\ snapshot = defaultChartConfig.layers
  /\ steps = 0
  /\ nextId = 0

Init == EditorInit /\ RenderIdle /\ NormalizeIdle /\ GeometryIdle

\* A handler can run: the panel is mounted and the step budget is not spent.
CanRun == ~crashed /\ steps < MaxSteps

LayerIds == { config.layers[i].id : i \in DOMAIN config.layers }

(***************************************************************************)
(* DraggableSegmentPanel: layers.                                          *)
(***************************************************************************)
\* segment.color.toLowerCase(): the colours of the model are lower-case hex
\* strings, which it leaves as they are.
ToLowerCase(color) == IF color = "#22C55E" THEN "#22c55e" ELSE color

\* The first preset colour no segment uses, PRESET_COLORS[0] when all are used.
SelectedColor(layers) ==
  LET usedColors == UNION { { ToLowerCase(layers[i].segments[j].color) :
                                j \in DOMAIN layers[i].segments } :
                            i \in DOMAIN layers }
      unused == { k \in DOMAIN PRESET_COLORS :
                    ToLowerCase(PRESET_COLORS[k]) \notin usedColors }
  IN  IF unused = {} THEN PRESET_COLORS[1]
      ELSE PRESET_COLORS[CHOOSE k \in unused : \A m \in unused : k <= m]

\* handleAddLayer's new layer: one segment of 100 percent, layer percent 10
NewPanelLayer(layers, segmentId, layerId) ==
  Layer(layerId, LayerName(Len(layers) + 1), N(100), N(10),
        << Segment(segmentId, "Financial Instrument", Hundred,
                   SelectedColor(layers)) >>)

handleAddLayer ==
  /\ CanRun
  /\ Len(config.layers) < MaxLayers
  /\ config' = [config EXCEPT !.layers =
                  Append(@, NewPanelLayer(@, generateId(nextId + 1),
                                          generateId(nextId + 2)))]
  /\ nextId' = nextId + 2
  /\ snapshot' = config.layers
  /\ last' = Ran("handleAddLayer", "", NoIndex, Zero, "")
  /\ steps' = steps + 1
  /\ UNCHANGED << renderVars, normalizeVars, geometryVars >>
  /\ UNCHANGED << draggedItem, isDragging, crashed >>

\* A handleDeleteLayer without the early return: the last layer can be deleted.
DeleteLayerReturnsNever(layers) == FALSE

\* handleDeleteLayer returns (after an alert) rather than delete the last layer
DeleteLayerReturns(layers) == Len(layers) <= 1

\* handleDeleteLayer's layers
DeleteLayerResult(layers, layerId) == FilterOutId(layers, layerId)

handleDeleteLayer(layerId) ==
  /\ CanRun
  /\ ~DeleteLayerReturns(config.layers)
  /\ config' = [config EXCEPT !.layers = DeleteLayerResult(@, layerId)]
  /\ snapshot' = config.layers
  /\ last' = Ran("handleDeleteLayer", layerId, NoIndex, Zero, "")
  /\ steps' = steps + 1
  /\ UNCHANGED << renderVars, normalizeVars, geometryVars >>
  /\ UNCHANGED << draggedItem, isDragging, crashed, nextId >>

\* handleUpdateLayerName's layers
UpdateLayerNameResult(layers, layerId, name) ==
  [i \in DOMAIN layers |->
     IF layers[i].id = layerId THEN [layers[i] EXCEPT !.name = name]
     ELSE layers[i]]

handleUpdateLayerName(layerId, name) ==
  /\ CanRun
  /\ config' = [config EXCEPT !.layers = UpdateLayerNameResult(@, layerId, name)]
  /\ snapshot' = config.layers
  /\ last' = Ran("handleUpdateLayerName", layerId, NoIndex, Zero, name)
  /\ steps' = steps + 1
  /\ UNCHANGED << renderVars, normalizeVars, geometryVars >>
  /\ UNCHANGED << draggedItem, isDragging, crashed, nextId >>

\* scaleFactor = otherTotal > 0 ? remainingPercent / otherTotal : 0
ScaleFactor(remainingPercent, otherTotal) ==
  IF Lt(Zero, otherTotal) THEN Div(remainingPercent, otherTotal) ELSE Zero

\* Mutant of UpdateLayerPercentResult: the input is not clamped.
UpdateLayerPercentUnclamped(layers, layerId, percent) ==
  LET otherLayersTotal == SumOtherLayers(layers, layerId, Len(layers))
      scaleFactor == ScaleFactor(Sub(Hundred, percent), otherLayersTotal)
  IN  [i \in DOMAIN layers |->
         IF layers[i].id = layerId
         THEN [layers[i] EXCEPT !.percent = percent]
         ELSE [layers[i] EXCEPT !.percent = Mul(OrZero(@), scaleFactor)]]

\* handleUpdateLayerPercent's layers
UpdateLayerPercentResult(layers, layerId, percent) ==
  LET clampedPercent == Clamp(percent)
      otherLayersTotal == SumOtherLayers(layers, layerId, Len(layers))
      remainingPercent == Sub(Hundred, clampedPercent)
      scaleFactor == ScaleFactor(remainingPercent, otherLayersTotal)
  IN  [i \in DOMAIN layers |->
         IF layers[i].id = layerId
         THEN [layers[i] EXCEPT !.percent = clampedPercent]
         ELSE [layers[i] EXCEPT !.percent = Mul(OrZero(@), scaleFactor)]]

handleUpdateLayerPercent(layerId, percent) ==
  /\ CanRun
  /\ config' = [config EXCEPT !.layers =
                  UpdateLayerPercentResult(@, layerId, percent)]
  /\ snapshot' = config.layers
  /\ last' = Ran("handleUpdateLayerPercent", layerId, NoIndex, percent, "")
  /\ steps' = steps + 1
  /\ UNCHANGED << renderVars, normalizeVars, geometryVars >>
  /\ UNCHANGED << draggedItem, isDragging, crashed, nextId >>

(***************************************************************************)
(* DraggableSegmentPanel: segments.                                        *)
(***************************************************************************)
\* newSegmentPercent of handleAddSegment
newSegmentPercent == 10

\* handleAddSegment's segments for one layer: the existing segments scaled
\* to 100 - newSegmentPercent, the new one appended
AddSegmentResult(segments, id) ==
  LET totalExistingPercent == SumPercent(segments)
      scaleFactor == ScaleFactor(Sub(Hundred, N(newSegmentPercent)),
                                 totalExistingPercent)
      adjustedSegments ==
        [i \in DOMAIN segments |->
           [segments[i] EXCEPT !.percent = Mul(@, scaleFactor)]]
      newSegment == Segment(id, SegmentLabel(Len(segments) + 1),
                            N(newSegmentPercent), PresetColor(Len(segments)))
  IN  Append(adjustedSegments, newSegment)

handleAddSegment(layerId) ==
  /\ CanRun
  /\ \A i \in DOMAIN config.layers :
       config.layers[i].id = layerId =>
         Len(config.layers[i].segments) < MaxSegments
  /\ config' = [config EXCEPT !.layers =
       [i \in DOMAIN @ |->
          IF @[i].id = layerId
          THEN [@[i] EXCEPT !.segments =
                  AddSegmentResult(@, generateId(nextId + 1))]
          ELSE @[i]]]
  /\ nextId' = nextId + 1
  /\ snapshot' = config.layers
  /\ last' = Ran("handleAddSegment", layerId, NoIndex, Zero, "")
  /\ steps' = steps + 1
  /\ UNCHANGED << renderVars, normalizeVars, geometryVars >>
  /\ UNCHANGED << draggedItem, isDragging, crashed >>

\* handleDeleteSegment's segments for one layer
DeleteSegmentResult(segments, segmentIndex) ==
  panelNormalizeSegments(FilterOutIndex(segments, segmentIndex))

handleDeleteSegment(layerId, segmentIndex) ==
  /\ CanRun
  /\ config' = [config EXCEPT !.layers =
       [i \in DOMAIN @ |->
          IF @[i].id = layerId
          THEN [@[i] EXCEPT !.segments = DeleteSegmentResult(@, segmentIndex)]
          ELSE @[i]]]
  /\ snapshot' = config.layers
  /\ last' = Ran("handleDeleteSegment", layerId, segmentIndex, Zero, "")
  /\ steps' = steps + 1
  /\ UNCHANGED << renderVars, normalizeVars, geometryVars >>
  /\ UNCHANGED << draggedItem, isDragging, crashed, nextId >>

\* Mutant of UpdateSegmentPercentResult: the other segments are not rescaled.
UpdateSegmentPercentUnscaled(segments, segmentIndex, newPercent) ==
  [i \in DOMAIN segments |->
     IF i - 1 = segmentIndex
     THEN [segments[i] EXCEPT !.percent = Max(Zero, Min(Hundred, newPercent))]
     ELSE segments[i]]

\* handleUpdateSegment on field 'percent': the segments of one layer
UpdateSegmentPercentResult(segments, segmentIndex, newPercent) ==
  LET clampedPercent == Clamp(newPercent)
      otherSegmentsTotal ==
        SumOtherSegments(segments, segmentIndex, Len(segments))
      remainingPercent == Sub(Hundred, clampedPercent)
      scaleFactor == ScaleFactor(remainingPercent, otherSegmentsTotal)
  IN  [i \in DOMAIN segments |->
         IF i - 1 = segmentIndex
         THEN [segments[i] EXCEPT !.percent = clampedPercent]
         ELSE [segments[i] EXCEPT !.percent = Mul(@, scaleFactor)]]

\* handleUpdateSegment on field 'label': the segments of one layer
UpdateSegmentLabelResult(segments, segmentIndex, value) ==
  [i \in DOMAIN segments |->
     IF i - 1 = segmentIndex THEN [segments[i] EXCEPT !.label = value]
     ELSE segments[i]]

handleUpdateSegment(layerId, segmentIndex, field, value, text) ==
  /\ CanRun
  /\ config' = [config EXCEPT !.layers =
       [i \in DOMAIN @ |->
          IF @[i].id = layerId
          THEN [@[i] EXCEPT !.segments =
                  IF field = "percent"
                  THEN UpdateSegmentPercentResult(@, segmentIndex, value)
                  ELSE UpdateSegmentLabelResult(@, segmentIndex, text)]
          ELSE @[i]]]
  /\ snapshot' = config.layers
  /\ last' = Ran(IF field = "percent" THEN "handleUpdateSegment"
                 ELSE "handleUpdateSegmentLabel",
                 layerId, segmentIndex, value, text)
  /\ steps' = steps + 1
  /\ UNCHANGED << renderVars, normalizeVars, geometryVars >>
  /\ UNCHANGED << draggedItem, isDragging, crashed, nextId >>

(***************************************************************************)
(* DraggableSegmentPanel: drag and drop.                                   *)
(***************************************************************************)
handleDragStart(layerId, segmentId, segmentIndex) ==
  /\ CanRun
  /\ draggedItem' = [layerId |-> layerId, segmentId |-> segmentId,
                     segmentIndex |-> segmentIndex]
  /\ isDragging' = TRUE
  /\ snapshot' = config.layers
  /\ last' = Ran("handleDragStart", layerId, segmentIndex, Zero, segmentId)
  /\ steps' = steps + 1
  /\ UNCHANGED << renderVars, normalizeVars, geometryVars >>
  /\ UNCHANGED << config, crashed, nextId >>

\* onDragEnd={() => setIsDragging(false)}
onDragEnd ==
  /\ CanRun
  /\ isDragging
  /\ isDragging' = FALSE
  /\ snapshot' = config.layers
  /\ last' = Ran("onDragEnd", "", NoIndex, Zero, "")
  /\ steps' = steps + 1
  /\ UNCHANGED << renderVars, normalizeVars, geometryVars >>
  /\ UNCHANGED << config, draggedItem, crashed, nextId >>

\* handleDrop returns before touching the layers: nothing is dragged, or the
\* source or target layer is not in the list.
DropReturns(layers, dragged, targetLayerId) ==
  \/ dragged = NoDrag
  \/ FindLayerIndex(layers, dragged.layerId) = 0
  \/ FindLayerIndex(layers, targetLayerId) = 0

\* The splice of handleDrop removed nothing, so movedSegment is undefined and
\* normalizeSegments throws on reading its percent.
DropThrows(layers, dragged, targetLayerId) ==
  /\ ~DropReturns(layers, dragged, targetLayerId)
  /\ dragged.segmentIndex >=
       Len(layers[FindLayerIndex(layers, dragged.layerId)].segments)

\* The layers as handleDrop leaves them: the two splices and the two
\* normalizations work on the layer objects of the configuration itself; a
\* throw leaves what was done up to it.
DropResult(layers, dragged, targetLayerId, targetIndex) ==
  LET sourceLayerIndex == FindLayerIndex(layers, dragged.layerId)
      targetLayerIndex == FindLayerIndex(layers, targetLayerId)
      throws == DropThrows(layers, dragged, targetLayerId)
      movedSegment ==
        IF throws THEN UndefinedSegment
        ELSE layers[sourceLayerIndex].segments[dragged.segmentIndex + 1]
      removed == [layers EXCEPT ![sourceLayerIndex].segments =
                    SpliceOut(@, dragged.segmentIndex)]
      insertIndex == IF targetIndex # NoIndex THEN targetIndex
                     ELSE Len(removed[targetLayerIndex].segments)
      inserted == [removed EXCEPT ![targetLayerIndex].segments =
                     SpliceIn(@, insertIndex, movedSegment)]
      sourceDone == [inserted EXCEPT ![sourceLayerIndex].segments =
                       panelNormalizeSegments(@)]
      targetDone == [sourceDone EXCEPT ![targetLayerIndex].segments =
                       panelNormalizeSegments(@)]
  IN  IF ~throws THEN targetDone
      ELSE IF sourceLayerIndex = targetLayerIndex THEN inserted
      ELSE sourceDone

handleDrop(targetLayerId, targetIndex) ==
  /\ CanRun
  /\ ~DropReturns(config.layers, draggedItem, targetLayerId)
  /\ config' = [config EXCEPT !.layers =
                  DropResult(@, draggedItem, targetLayerId, targetIndex)]
  /\ crashed' = DropThrows(config.layers, draggedItem, targetLayerId)
  /\ IF DropThrows(config.layers, draggedItem, targetLayerId)
     THEN UNCHANGED << draggedItem, isDragging >>
     ELSE draggedItem' = NoDrag /\ isDragging' = FALSE
  /\ snapshot' = config'.layers
  /\ last' = Ran("handleDrop", targetLayerId, targetIndex, Zero, "")
  /\ steps' = steps + 1
  /\ UNCHANGED << renderVars, normalizeVars, geometryVars >>
  /\ UNCHANGED nextId

(***************************************************************************)
(* The segment panel as the user drives it.                                *)
(***************************************************************************)
\* The segments shown in the panel: layer id, index in the layer, segment id.
SegmentRows ==
  UNION { { << config.layers[i].id, j - 1, config.layers[i].segments[j].id >> :
              j \in DOMAIN config.layers[i].segments } :
          i \in DOMAIN config.layers }

Next ==
  \/ handleAddLayer
  \/ \E l \in LayerIds : handleDeleteLayer(l)
  \/ \E l \in LayerIds, t \in TextInputs : handleUpdateLayerName(l, t)
  \/ \E l \in LayerIds, p \in PercentInputs : handleUpdateLayerPercent(l, p)
  \/ \E l \in LayerIds : handleAddSegment(l)
  \/ \E r \in SegmentRows : handleDeleteSegment(r[1], r[2])
  \/ \E r \in SegmentRows, p \in PercentInputs :
       handleUpdateSegment(r[1], r[2], "percent", p, "")
  \/ \E r \in SegmentRows, t \in TextInputs :
       handleUpdateSegment(r[1], r[2], "label", Zero, t)
  \/ \E r \in SegmentRows : handleDragStart(r[1], r[3], r[2])
  \/ onDragEnd
  \/ \E r \in SegmentRows : handleDrop(r[1], r[2])
  \/ \E l \in LayerIds : handleDrop(l, NoIndex)

Spec == Init /\ [][Next]_vars

(***************************************************************************)
(* ControlPanel: the handlers of the layers section.                       *)
(***************************************************************************)
\* addLayer's new layer: no percent, two segments of 50 percent
NewControlPanelLayer(layers, layerId, segmentId1, segmentId2) ==
  Layer(layerId, LayerName(Len(layers) + 1), N(100), Undefined,
        << Segment(segmentId1, "Segment 1", N(50), PresetColor(Len(layers))),
           Segment(segmentId2, "Segment 2", N(50),
                   PresetColor(Len(layers) + 1)) >>)

addLayer ==
  /\ CanRun
  /\ Len(config.layers) < MaxLayers
  /\ config' = [config EXCEPT !.layers =
       Append(@, NewControlPanelLayer(@, generateId(nextId + 1),
                                      generateId(nextId + 2),
                                      generateId(nextId + 3)))]
  /\ nextId' = nextId + 3
  /\ snapshot' = config.layers
  /\ last' = Ran("addLayer", "", NoIndex, Zero, "")
  /\ steps' = steps + 1
  /\ UNCHANGED << renderVars, normalizeVars, geometryVars >>
  /\ UNCHANGED << draggedItem, isDragging, crashed >>

removeLayer(layerId) ==
  /\ CanRun
  /\ config' = [config EXCEPT !.layers = FilterOutId(@, layerId)]
  /\ snapshot' = config.layers
  /\ last' = Ran("removeLayer", layerId, NoIndex, Zero, "")
  /\ steps' = steps + 1
  /\ UNCHANGED << renderVars, normalizeVars, geometryVars >>
  /\ UNCHANGED << draggedItem, isDragging, crashed, nextId >>

\* moveLayer's target index (from 0): the neighbour above or below
MoveTarget(index, direction) ==
  IF direction = "up" THEN index - 1 ELSE index + 1

\* moveLayer returns when the neighbour is outside the list
MoveLayerReturns(layers, index, direction) ==
  MoveTarget(index, direction) < 0 \/ MoveTarget(index, direction) >= Len(layers)

\* Mutant of MoveLayerResult: the neighbour is copied over the layer and
\* not the layer over the neighbour.
MoveLayerResultCopied(layers, index, direction) ==
  [layers EXCEPT ![index + 1] = layers[MoveTarget(index, direction) + 1]]

\* moveLayer's layers: the two neighbours swapped
MoveLayerResult(layers, index, direction) ==
  LET targetIndex == MoveTarget(index, direction)
  IN  [layers EXCEPT ![index + 1] = layers[targetIndex + 1],
                     ![targetIndex + 1] = layers[index + 1]]

moveLayer(index, direction) ==
  /\ CanRun
  /\ ~MoveLayerReturns(config.layers, index, direction)
  /\ config' = [config EXCEPT !.layers = MoveLayerResult(@, index, direction)]
  /\ snapshot' = config.layers
  /\ last' = Ran("moveLayer", "", index, Zero, direction)
  /\ steps' = steps + 1
  /\ UNCHANGED << renderVars, normalizeVars, geometryVars >>
  /\ UNCHANGED << draggedItem, isDragging, crashed, nextId >>

\* addSegment's segments for one layer: a segment of 10 percent appended,
\* then all of them normalized
ControlPanelAddSegmentResult(segments, id) ==
  normalizeSegments(
    Append(segments,
           Segment(id, SegmentLabel(Len(segments) + 1), N(10),
                   PresetColor(Len(segments) + 4))))

addSegment(layerId) ==
  /\ CanRun
  /\ \A i \in DOMAIN config.layers :
       config.layers[i].id = layerId =>
         Len(config.layers[i].segments) < MaxSegments
  /\ config' = [config EXCEPT !.layers =
       [i \in DOMAIN @ |->
          IF @[i].id # layerId THEN @[i]
          ELSE [@[i] EXCEPT !.segments =
                  ControlPanelAddSegmentResult(@, generateId(nextId + 1))]]]
  /\ nextId' = nextId + 1
  /\ snapshot' = config.layers
  /\ last' = Ran("addSegment", layerId, NoIndex, Zero, "")
  /\ steps' = steps + 1
  /\ UNCHANGED << renderVars, normalizeVars, geometryVars >>
  /\ UNCHANGED << draggedItem, isDragging, crashed >>

\* removeSegment's segments for one layer
RemoveSegmentResult(segments, segmentId) ==
  normalizeSegments(FilterOutId(segments, segmentId))

removeSegment(layerId, segmentId) ==
  /\ CanRun
  /\ config' = [config EXCEPT !.layers =
       [i \in DOMAIN @ |->
          IF @[i].id # layerId THEN @[i]
          ELSE [@[i] EXCEPT !.segments = RemoveSegmentResult(@, segmentId)]]]
  /\ snapshot' = config.layers
  /\ last' = Ran("removeSegment", layerId, NoIndex, Zero, segmentId)
  /\ steps' = steps + 1
  /\ UNCHANGED << renderVars, normalizeVars, geometryVars >>
  /\ UNCHANGED << draggedItem, isDragging, crashed, nextId >>

normalizeLayerSegments(layerId) ==
  /\ CanRun
  /\ config' = [config EXCEPT !.layers =
       [i \in DOMAIN @ |->
          IF @[i].id # layerId THEN @[i]
          ELSE [@[i] EXCEPT !.segments = normalizeSegments(@)]]]
  /\ snapshot' = config.layers
  /\ last' = Ran("normalizeLayerSegments", layerId, NoIndex, Zero, "")
  /\ steps' = steps + 1
  /\ UNCHANGED << renderVars, normalizeVars, geometryVars >>
  /\ UNCHANGED << draggedItem, isDragging, crashed, nextId >>

ControlPanelNext ==
  \/ addLayer
  \/ \E l \in LayerIds : removeLayer(l)
  \/ \E i \in DOMAIN config.layers, d \in { "up", "down" } : moveLayer(i - 1, d)
  \/ \E l \in LayerIds : addSegment(l)
  \/ \E r \in SegmentRows : removeSegment(r[1], r[3])
  \/ \E l \in LayerIds : normalizeLayerSegments(l)

ControlPanelSpec == Init /\ [][ControlPanelNext]_vars

(***************************************************************************)
(* Export and import of the configuration as JSON.                         *)
(***************************************************************************)
\* The JSON value null, where a number was expected.
Null == [n |-> 0, d |-> -2]

\* A number as JSON.stringify writes it and JSON.parse reads it back: a
\* finite number comes back as it was, NaN and the infinities are written
\* as null, and a property that is undefined is left out, so that it reads
\* as undefined again.
JsonNumber(x) ==
  IF x = Undefined THEN Undefined
  ELSE IF IsFinite(x) THEN x
  ELSE Null

\* A segment as it is written and read back; undefined as an element of an
\* array is written as null.
JsonSegment(segment) ==
  IF segment = UndefinedSegment
  THEN [null |-> TRUE, id |-> "", label |-> "", percent |-> Null, color |-> ""]
  ELSE [null |-> FALSE, id |-> segment.id, label |-> segment.label,
        percent |-> JsonNumber(segment.percent), color |-> segment.color]

\* exportToJSON followed by JSON.parse: the document importFromJSON
\* validates. canvas, axes and fan are the objects of the default
\* configuration, which no panel handler touches.
exportToJSON(cfg) ==
  [canvas |-> TRUE, axes |-> TRUE, fan |-> TRUE,
   layers |->
     [i \in DOMAIN cfg.layers |->
        [id |-> cfg.layers[i].id,
         name |-> cfg.layers[i].name,
         height |-> JsonNumber(cfg.layers[i].height),
         percent |-> JsonNumber(cfg.layers[i].percent),
         segments |-> [j \in DOMAIN cfg.layers[i].segments |->
                         JsonSegment(cfg.layers[i].segments[j])]]]]

\* !s for a string: only the empty string is falsy
NotString(str) == str = ""

\* The validation of one segment fails; reading a property of null throws,
\* which the catch turns into a failure as well.
InvalidSegment(segment) ==
  \/ segment.null
  \/ NotString(segment.id)
  \/ segment.percent = Undefined
  \/ NotString(segment.color)

\* The validation of one layer fails (segments is always an array here).
InvalidLayer(layer) ==
  \/ NotString(layer.id)
  \/ NotString(layer.name)

\* importFromJSON on the parsed document: null, or the document as the
\* configuration.
importFromJSON(parsed) ==
  IF \/ ~parsed.canvas
     \/ ~parsed.axes
     \/ ~parsed.fan
     \/ \E i \in DOMAIN parsed.layers :
          \/ InvalidLayer(parsed.layers[i])
          \/ \E j \in DOMAIN parsed.layers[i].segments :
               InvalidSegment(parsed.layers[i].segments[j])
  THEN [null |-> TRUE, layers |-> << >>]
  ELSE [null |-> FALSE,
        layers |->
          [i \in DOMAIN parsed.layers |->
             Layer(parsed.layers[i].id, parsed.layers[i].name,
                   parsed.layers[i].height, parsed.layers[i].percent,
                   [j \in DOMAIN parsed.layers[i].segments |->
                      Segment(parsed.layers[i].segments[j].id,
                              parsed.layers[i].segments[j].label,
                              parsed.layers[i].segments[j].percent,
                              parsed.layers[i].segments[j].color)])]]

\* The configuration is exported and the export imported again; the chart
\* takes what importFromJSON returns unless that is null.
importExported ==
  /\ CanRun
  /\ LET imported == importFromJSON(exportToJSON(config))
     IN  /\ config' = IF imported.null THEN config
                      ELSE [config EXCEPT !.layers = imported.layers]
         /\ last' = Ran("importFromJSON", "", NoIndex, Zero,
                        IF imported.null THEN "null" ELSE "config")
  /\ snapshot' = config.layers
  /\ steps' = steps + 1
  /\ UNCHANGED << renderVars, normalizeVars, geometryVars >>
  /\ UNCHANGED << draggedItem, isDragging, crashed, nextId >>

ImportNext == Next \/ importExported

ImportSpec == Init /\ [][ImportNext]_vars

(***************************************************************************)
(* Both panels on the one configuration: each is a component over          *)
(* { config, onChange }, and what one emits the other is handed.           *)
(***************************************************************************)
EditorNext == Next \/ ControlPanelNext

EditorSpec == Init /\ [][EditorNext]_vars

(***************************************************************************)
(* TriangleChart: renderLayer.                                             *)
(***************************************************************************)
One == N(1)

Two == N(2)

Half == Num(1, 2)

\* const topWidth = layerTopRightX - layerTopLeftX
topWidth(ld) == Sub(ld.layerTopRightX, ld.layerTopLeftX)

\* const bottomWidth = layerBottomRightX - layerOriginX
bottomWidth(ld) == Sub(ld.layerTopRightX, ld.layerOriginX)

\* const layerHeight = layerOriginY - layerTopLeftY
layerHeight(ld) == Sub(ld.bottom, ld.top)

\* const totalArea = 0.5 * layerHeight * (topWidth + bottomWidth)
totalArea(ld) ==
  Mul(Mul(Half, layerHeight(ld)), Add(topWidth(ld), bottomWidth(ld)))

\* const maxTopEdgeArea = 0.5 * layerHeight * topWidth
maxTopEdgeArea(ld) == Mul(Mul(Half, layerHeight(ld)), topWidth(ld))

\* The ratio returned for a cumulative share at or past 1.
RatioAtFull == One

\* Mutant of calculateRatioForArea: past the top edge the remaining area is
\* measured against the top width instead of the bottom width.
calculateRatioForAreaTopWidth(ld, cumulativeAreaPercent) ==
  IF Le(cumulativeAreaPercent, Zero) THEN Zero
  ELSE IF Le(One, cumulativeAreaPercent) THEN One
  ELSE LET targetArea == Mul(cumulativeAreaPercent, totalArea(ld))
       IN  IF Le(targetArea, maxTopEdgeArea(ld))
           THEN Div(targetArea, maxTopEdgeArea(ld))
           ELSE Add(One, Min(One, Div(Sub(targetArea, maxTopEdgeArea(ld)),
                                      maxTopEdgeArea(ld))))

\* The position along the top edge (up to 1) and then the right edge (up
\* to 2) at which the area swept from the origin is the given share of the
\* layer's area.
calculateRatioForArea(ld, cumulativeAreaPercent) ==
  IF Le(cumulativeAreaPercent, Zero) THEN Zero
  ELSE IF Le(One, cumulativeAreaPercent) THEN RatioAtFull
  ELSE LET targetArea == Mul(cumulativeAreaPercent, totalArea(ld))
       IN  IF Le(targetArea, maxTopEdgeArea(ld))
           THEN Div(targetArea, maxTopEdgeArea(ld))
           ELSE LET remainingArea == Sub(targetArea, maxTopEdgeArea(ld))
                    s == Div(remainingArea,
                             Mul(Mul(Half, bottomWidth(ld)), layerHeight(ld)))
                IN  Add(One, Min(One, s))

\* The area swept from the origin up to a ratio.
calculateActualArea(ld, ratio) ==
  IF Le(ratio, One)
  THEN Mul(Mul(Mul(Half, layerHeight(ld)), topWidth(ld)), ratio)
  ELSE LET s == Sub(ratio, One)
           rightEdgeArea ==
             Mul(Mul(Mul(Half, bottomWidth(ld)), layerHeight(ld)), s)
       IN  Add(maxTopEdgeArea(ld), rightEdgeArea)

\* Mutant of EndRatio: every segment is made to end at 2.0.
EndRatioAlwaysTwo(ld, index, endPercent) == Two

\* Mutant of EndRatio: the last segment is not forced to 2.0.
EndRatioUnforced(ld, index, endPercent) ==
  calculateRatioForArea(ld, endPercent)

\* endRatio of a segment: what calculateRatioForArea gave, and 2.0 for the
\* last segment of the layer.
EndRatio(ld, index, endPercent) ==
  IF index = Len(ld.segments) - 1 THEN Two
  ELSE calculateRatioForArea(ld, endPercent)

\* The point of a ratio: on the top edge up to 1, on the right edge past it.
RatioPoint(ld, ratio) ==
  IF Le(ratio, One)
  THEN [x |-> Add(ld.layerTopLeftX, Mul(topWidth(ld), ratio)), y |-> ld.top]
  ELSE [x |-> ld.layerTopRightX,
        y |-> Add(ld.top, Mul(layerHeight(ld), Sub(ratio, One)))]

\* The polygon of a segment: a triangle, or a quadrilateral through the
\* top-right corner when it starts on the top edge and ends on the right edge.
PolygonPoints(ld, startRatio, endRatio) ==
  LET origin == [x |-> ld.layerOriginX, y |-> ld.bottom]
      startPoint == RatioPoint(ld, startRatio)
      endPoint == RatioPoint(ld, endRatio)
  IN  IF Le(startRatio, One) /\ Le(endRatio, One)
      THEN << origin, startPoint, endPoint >>
      ELSE IF Le(startRatio, One) /\ Lt(One, endRatio)
      THEN << origin, startPoint,
              [x |-> ld.layerTopRightX, y |-> ld.top], endPoint >>
      ELSE << origin, startPoint, endPoint >>

\* The label's default position: the average of the polygon's vertices.
Center(ld, startRatio, endRatio) ==
  LET origin == [x |-> ld.layerOriginX, y |-> ld.bottom]
      startPoint == RatioPoint(ld, startRatio)
      endPoint == RatioPoint(ld, endRatio)
  IN  IF Le(startRatio, One) /\ Lt(One, endRatio)
      THEN [x |-> Div(Add(Add(Add(origin.x, startPoint.x), ld.layerTopRightX),
                          endPoint.x), N(4)),
            y |-> Div(Add(Add(Add(origin.y, startPoint.y), ld.top),
                          endPoint.y), N(4))]
      ELSE [x |-> Div(Add(Add(origin.x, startPoint.x), endPoint.x), N(3)),
            y |-> Div(Add(Add(origin.y, startPoint.y), endPoint.y), N(3))]

\* One pass of layer.segments.forEach: everything computed for the segment
\* at index, given the percent covered before it.
RenderSegment(ld, index, current) ==
  LET segment == ld.segments[index + 1]
      startPercent == Div(current, Hundred)
      endPercent == Div(Add(current, segment.percent), Hundred)
      startRatio == calculateRatioForArea(ld, startPercent)
      endRatio == EndRatio(ld, index, endPercent)
      startArea == calculateActualArea(ld, startRatio)
      endArea == calculateActualArea(ld, endRatio)
      debugSegmentArea == Sub(endArea, startArea)
      actualPercent == Mul(Div(debugSegmentArea, totalArea(ld)), Hundred)
  IN  [segIndex |-> index,
       segment |-> segment,
       startPercent |-> startPercent,
       endPercent |-> endPercent,
       startRatio |-> startRatio,
       computedEndRatio |-> calculateRatioForArea(ld, endPercent),
       endRatio |-> endRatio,
       debugSegmentArea |-> debugSegmentArea,
       actualPercent |-> actualPercent,
       mismatchLogged |->
         Lt(Num(1, 10), MathAbs(Sub(actualPercent, segment.percent))),
       startPoint |-> RatioPoint(ld, startRatio),
       endPoint |-> RatioPoint(ld, endRatio),
       points |-> PolygonPoints(ld, startRatio, endRatio),
       center |-> Center(ld, startRatio, endRatio),
       separator |->
         IF ld.showDottedSeparators /\ index < Len(ld.segments) - 1
         THEN << [x1 |-> ld.layerOriginX, y1 |-> ld.bottom,
                  x2 |-> RatioPoint(ld, endRatio).x,
                  y2 |-> RatioPoint(ld, endRatio).y] >>
         ELSE << >>]

\* The forEach callback for the next segment of the layer.
renderSegment ==
  /\ segIndex < Len(layerData.segments)
  /\ segmentPolygons' =
       Append(segmentPolygons, RenderSegment(layerData, segIndex, currentPercent))
  /\ currentPercent' = Add(currentPercent, layerData.segments[segIndex + 1].percent)
  /\ segIndex' = segIndex + 1
  /\ UNCHANGED << layerData, editorVars, normalizeVars, geometryVars >>

(***************************************************************************)
(* renderLayer on a layer of its own: the corners and the segments are     *)
(* drawn from small sets.                                                  *)
(***************************************************************************)
\* x of the right edge (geometry.endX)
RenderEndX == 400

\* (layerTopLeftX, layerOriginX): top and bottom widths 0/200, 200/400,
\* 0/0 and 200/0
RenderLeftEdges ==
  { << 400, 200 >>, << 200, 0 >>, << 400, 400 >>, << 200, 400 >> }

\* (top, bottom): layers of height 100 and 0
RenderSpans == { << 100, 200 >>, << 100, 100 >> }

\* The percents of the segments handed to renderLayer.
RenderPercents == { 0, 30, 40, 50, 100 }

RECURSIVE PercentLists(_)
PercentLists(k) ==
  IF k = 0 THEN { << >> }
  ELSE LET shorter == PercentLists(k - 1)
       IN  shorter \cup
           { Append(l, p) : l \in { m \in shorter : Len(m) = k - 1 },
                            p \in RenderPercents }

\* The segments of a list of percents, named s1, s2, ... as the defaults are.
RenderSegments(percents) ==
  [i \in DOMAIN percents |->
     Segment(<< "s1", "s2", "s3", "s4", "s5", "s6" >>[i], SegmentLabel(i),
             N(percents[i]), PresetColor(i - 1))]

RenderInit ==
  /\ EditorInit
  /\ NormalizeIdle
  /\ GeometryIdle
  /\ \E e \in RenderLeftEdges, v \in RenderSpans,
        l \in PercentLists(MaxRenderSegments), d \in BOOLEAN :
       layerData = [layerOriginX |-> N(e[2]), layerTopLeftX |-> N(e[1]),
                    layerTopRightX |-> N(RenderEndX),
                    top |-> N(v[1]), bottom |-> N(v[2]),
                    segments |-> RenderSegments(l),
                    showDottedSeparators |-> d]
  /\ segIndex = 0
  /\ currentPercent = Zero
  /\ segmentPolygons = << >>

RenderNext == renderSegment

RenderSpec == RenderInit /\ [][RenderNext]_vars

(***************************************************************************)
(* TriangleChart's geometry: the vertical span of each layer along the     *)
(* right edge of the fan, for canvas heights and layers drawn from small   *)
(* sets.                                                                   *)
(***************************************************************************)
\* padding.top and padding.bottom
PaddingTop == 40

PaddingBottom == 60

\* canvas.height - padding.top - padding.bottom
chartHeight(input) ==
  Sub(Sub(input.canvasHeight, N(PaddingTop)), N(PaddingBottom))

\* y of the fan's base: padding.top + chartHeight - 20
startY(input) == Sub(Add(N(PaddingTop), chartHeight(input)), N(20))

\* y of the fan's apex: padding.top
endY(input) == N(PaddingTop)

\* layers.some(layer => layer.percent !== undefined)
hasPercents(layers) ==
  \E i \in DOMAIN layers : layers[i].percent # Undefined

\* hasPercents ? (layer.percent || 0) : layer.height
layerValue(layers, layer) ==
  IF hasPercents(layers) THEN OrZero(layer.percent) ELSE layer.height

\* The sum of the layers' values (the two reduce calls).
RECURSIVE totalLayerHeight(_, _)
totalLayerHeight(layers, k) ==
  IF k = 0 THEN Zero
  ELSE Add(totalLayerHeight(layers, k - 1), layerValue(layers, layers[k]))

\* (startY - endY) * layerHeightRatio for the layer at index (from 1)
boundaryHeight(input, index) ==
  LET layerHeightRatio ==
        Div(layerValue(input.layers, input.layers[index]),
            totalLayerHeight(input.layers, Len(input.layers)))
  IN  Mul(Sub(startY(input), endY(input)), layerHeightRatio)

\* Mutant of LayerBoundary: every layer is laid out from the apex.
LayerBoundaryFromApex(input, index, y) ==
  [top |-> endY(input),
   bottom |-> Add(endY(input), boundaryHeight(input, index)),
   layer |-> input.layers[index]]

\* What layers.forEach pushes for the layer at index, having reached y.
LayerBoundary(input, index, y) ==
  [top |-> y,
   bottom |-> Add(y, boundaryHeight(input, index)),
   layer |-> input.layers[index]]

\* The forEach callback for the next layer of the chart.
pushLayerBoundary ==
  /\ Len(layerBoundaries) < Len(geometryInput.layers)
  /\ layerBoundaries' =
       Append(layerBoundaries,
              LayerBoundary(geometryInput, Len(layerBoundaries) + 1, currentY))
  /\ currentY' =
       Add(currentY, boundaryHeight(geometryInput, Len(layerBoundaries) + 1))
  /\ UNCHANGED << geometryInput, editorVars, renderVars, normalizeVars >>

\* canvas.height of the charts laid out
GeometryCanvasHeights == { 700, 400 }

\* layer.percent of the layers laid out: absent, 0, 40 and 60
GeometryPercents == { Undefined, Zero, N(40), N(60) }

\* layer.height of the layers laid out
GeometryHeights == { 0, 100 }

RECURSIVE GeometryLayerLists(_)
GeometryLayerLists(k) ==
  IF k = 0 THEN { << >> }
  ELSE LET shorter == GeometryLayerLists(k - 1)
       IN  shorter \cup
           { Append(l, Layer(<< "L1", "L2", "L3", "L4", "L5" >>[k],
                             LayerName(k), N(h), p, << >>)) :
               l \in { m \in shorter : Len(m) = k - 1 },
               h \in GeometryHeights, p \in GeometryPercents }

GeometryInit ==
  /\ EditorInit
  /\ RenderIdle
  /\ NormalizeIdle
  /\ \E c \in GeometryCanvasHeights, l \in GeometryLayerLists(MaxGeometryLayers) :
       geometryInput = [canvasHeight |-> N(c), layers |-> l]
  /\ currentY = endY(geometryInput)
  /\ layerBoundaries = << >>

GeometryNext == pushLayerBoundary

GeometrySpec == GeometryInit /\ [][GeometryNext]_vars

(***************************************************************************)
(* normalizeSegments on segments of their own, in both copies: the         *)
(* percents are drawn from a small set, and each copy is applied to its    *)
(* own result again.                                                       *)
(***************************************************************************)
\* The percents of the segments handed to normalizeSegments.
NormalizePercents == { N(-10), Zero, N(10), N(30), NaN }

RECURSIVE NormalizeLists(_)
NormalizeLists(k) ==
  IF k = 0 THEN { << >> }
  ELSE LET shorter == NormalizeLists(k - 1)
       IN  shorter \cup
           { Append(l, p) : l \in { m \in shorter : Len(m) = k - 1 },
                            p \in NormalizePercents }

\* The segments of a list of percents.
NormalizeSegments(percents) ==
  [i \in DOMAIN percents |->
     Segment(<< "s1", "s2", "s3", "s4", "s5", "s6" >>[i], SegmentLabel(i),
             percents[i], PresetColor(i - 1))]

\* What the next application works on: the input, or the last result.
NormalizeArgument(results) ==
  IF results = << >> THEN normInput ELSE results[Len(results)]

\* normalizeSegments(segments) of lib/chart-types is called.
callNormalizeSegments ==
  /\ Len(normLib) < MaxApplications
  /\ normLib' = Append(normLib, normalizeSegments(NormalizeArgument(normLib)))
  /\ UNCHANGED << normInput, normPanel, editorVars, renderVars, geometryVars >>

\* normalizeSegments(segments) of DraggableSegmentPanel is called.
callPanelNormalizeSegments ==
  /\ Len(normPanel) < MaxApplications
  /\ normPanel' =
       Append(normPanel, panelNormalizeSegments(NormalizeArgument(normPanel)))
  /\ UNCHANGED << normInput, normLib, editorVars, renderVars, geometryVars >>

NormalizeInit ==
  /\ EditorInit
  /\ RenderIdle
  /\ GeometryIdle
  /\ normInput \in { NormalizeSegments(l) : l \in NormalizeLists(MaxNormalizeSegments) }
  /\ normLib = << >>
  /\ normPanel = << >>

NormalizeNext == callNormalizeSegments \/ callPanelNormalizeSegments

NormalizeSpec == NormalizeInit /\ [][NormalizeNext]_vars

(***************************************************************************)
(* Properties.                                                             *)
(***************************************************************************)
\* The indices of the layers the last handler was aimed at, in the layers
\* it found.
TargetLayers == { i \in DOMAIN last.before : last.before[i].id = last.layerId }

\* The sum of the layers' percents.
RECURSIVE LayerPercentTotal(_)
LayerPercentTotal(layers) ==
  IF layers = << >> THEN Zero
  ELSE Add(LayerPercentTotal(SubSeq(layers, 1, Len(layers) - 1)),
           OrZero(layers[Len(layers)].percent))

\* C1: in every configuration the segment panel emits, each layer that has
\* at least one segment has segment percents that sum to 100.
C1_SegmentPercentsSumTo100 ==
  ~crashed =>
    \A i \in DOMAIN config.layers :
      Len(config.layers[i].segments) > 0 =>
        SumPercent(config.layers[i].segments) = Hundred

\* C2: in every configuration reached by adding and deleting layers and
\* editing layer percents, the layer percents sum to 100.
C2_LayerPercentsSumTo100 ==
  ~crashed => LayerPercentTotal(config.layers) = Hundred

(***************************************************************************)
(* Properties of renderLayer.                                              *)
(***************************************************************************)
\* The layer handed to renderLayer has positive height and area, and
\* non-negative percents that sum to 100.
WellFormedLayer ==
  /\ Lt(Zero, layerHeight(layerData))
  /\ Le(Zero, topWidth(layerData))
  /\ Le(Zero, bottomWidth(layerData))
  /\ Lt(Zero, Add(topWidth(layerData), bottomWidth(layerData)))
  /\ \A i \in DOMAIN layerData.segments :
       Le(Zero, layerData.segments[i].percent)
  /\ SumPercent(layerData.segments) = Hundred

\* The share of the layer's area that the polygon of a rendered segment
\* covers, by the areas swept up to its two ratios.
AreaFraction(r) ==
  Div(Sub(calculateActualArea(layerData, r.endRatio),
          calculateActualArea(layerData, r.startRatio)),
      totalArea(layerData))

\* C3: on a well-formed layer every segment's polygon covers percent/100 of
\* the layer's area, within 0.1 percentage points.
C3_AreaFidelity ==
  WellFormedLayer =>
    \A k \in DOMAIN segmentPolygons :
      Le(MathAbs(Sub(AreaFraction(segmentPolygons[k]),
                     Div(segmentPolygons[k].segment.percent, Hundred))),
         Num(1, 1000))

\* C4: whatever the percents and whatever calculateRatioForArea returned,
\* the last segment of a layer ends at ratio 2, the bottom-right corner
\* (topRightX, topRightY + layerHeight).
C4_LastSegmentClosesAtTwo ==
  \A k \in DOMAIN segmentPolygons :
    segmentPolygons[k].segIndex = Len(layerData.segments) - 1 =>
      /\ segmentPolygons[k].endRatio = Two
      /\ segmentPolygons[k].endPoint =
           [x |-> layerData.layerTopRightX,
            y |-> Add(layerData.top, layerHeight(layerData))]
      /\ segmentPolygons[k].points[Len(segmentPolygons[k].points)] =
           [x |-> layerData.layerTopRightX, y |-> layerData.bottom]

\* C4 witness: the last of several segments was rendered, and
\* calculateRatioForArea had returned something else than 2 for its end.
C4_Witness ==
  /\ Len(layerData.segments) >= 2
  /\ Len(segmentPolygons) = Len(layerData.segments)
  /\ segmentPolygons[Len(segmentPolygons)].computedEndRatio # Two
  /\ segmentPolygons[Len(segmentPolygons)].endRatio = Two
  /\ Lt(Zero, layerHeight(layerData))

\* C5: calculateRatioForArea returns 2 for every cumulative share f >= 1.
C5_RatioAtFullIsTwo ==
  \A k \in DOMAIN segmentPolygons :
    /\ Le(One, segmentPolygons[k].startPercent) =>
         segmentPolygons[k].startRatio = Two
    /\ Le(One, segmentPolygons[k].endPercent) =>
         segmentPolygons[k].computedEndRatio = Two

\* The ratio the tessellation design gives for a cumulative share f of a
\* trapezoid of the given widths and height.
RatioAsDesigned(tw, bw, h, f, ratio) ==
  LET total == Mul(Mul(Half, h), Add(tw, bw))
      maxTop == Mul(Mul(Half, h), tw)
      target == Mul(f, total)
  IN  /\ Le(f, Zero) => ratio = Zero
      /\ (Lt(Zero, f) /\ Lt(f, One) /\ Le(target, maxTop)) =>
           ratio = Div(target, maxTop)
      /\ (Lt(Zero, f) /\ Lt(f, One) /\ Lt(maxTop, target)) =>
           ratio = Add(One, Min(One, Div(Sub(target, maxTop),
                                         Mul(Mul(Half, bw), h))))
      /\ Le(Zero, ratio)
      /\ Le(ratio, Two)

\* The trapezoid of C6: positive height and area, non-negative widths.
ProperTrapezoid ==
  /\ Lt(Zero, layerHeight(layerData))
  /\ Le(Zero, topWidth(layerData))
  /\ Le(Zero, bottomWidth(layerData))
  /\ Lt(Zero, Add(topWidth(layerData), bottomWidth(layerData)))

\* C6: on a trapezoid of positive height and area, calculateRatioForArea(f)
\* is 0 for f <= 0, targetArea/maxTopEdgeArea for a target on the top edge,
\* 1 + min(1, remainingArea/(0.5*bottomWidth*layerHeight)) past it, and
\* always within [0,2].
C6_RatioForArea ==
  ProperTrapezoid =>
    \A k \in DOMAIN segmentPolygons :
      /\ RatioAsDesigned(topWidth(layerData), bottomWidth(layerData),
                         layerHeight(layerData),
                         segmentPolygons[k].startPercent,
                         segmentPolygons[k].startRatio)
      /\ RatioAsDesigned(topWidth(layerData), bottomWidth(layerData),
                         layerHeight(layerData),
                         segmentPolygons[k].endPercent,
                         segmentPolygons[k].computedEndRatio)

\* C6 witness: on the trapezoid of widths 200 and 400 a segment starts on
\* the top edge and its computed end lies on the right edge, short of the
\* corner.
C6_Witness ==
  /\ ProperTrapezoid
  /\ topWidth(layerData) = N(200)
  /\ bottomWidth(layerData) = N(400)
  /\ \E k \in DOMAIN segmentPolygons :
       /\ Lt(Zero, segmentPolygons[k].startRatio)
       /\ Lt(segmentPolygons[k].startRatio, One)
       /\ Lt(One, segmentPolygons[k].computedEndRatio)
       /\ Lt(segmentPolygons[k].computedEndRatio, Two)

\* The input of a percent edit brought into [0,100].
ClampedInput(p) ==
  IF Lt(p, Zero) THEN Zero ELSE IF Lt(Hundred, p) THEN Hundred ELSE p

\* The factor a percent edit applies to the items it does not target.
RescaleFactor(clamped, otherTotal) ==
  IF Lt(Zero, otherTotal) THEN Div(Sub(Hundred, clamped), otherTotal) ELSE Zero

\* The segments of the edited layer before the edit, and what the other
\* segments added up to.
OtherSegmentsBefore(i) ==
  Sub(SumPercent(last.before[i].segments),
      last.before[i].segments[last.index + 1].percent)

\* What the layers other than the edited one added up to before the edit.
OtherLayersBefore(i) ==
  Sub(LayerPercentTotal(last.before), last.before[i].percent)

\* C7: after one percent edit of a segment or of a layer, the percents of
\* the edited sequence sum to 100 whenever the other items' percents summed
\* to more than 0 or the clamped input is 100.
C7_EditKeepsSum ==
  /\ last.op = "handleUpdateSegment" =>
       \A i \in TargetLayers :
         (Lt(Zero, OtherSegmentsBefore(i)) \/ ClampedInput(last.value) = Hundred)
           => SumPercent(config.layers[i].segments) = Hundred
  /\ last.op = "handleUpdateLayerPercent" =>
       \A i \in TargetLayers :
         (Lt(Zero, OtherLayersBefore(i)) \/ ClampedInput(last.value) = Hundred)
           => LayerPercentTotal(config.layers) = Hundred

\* C7 witness: a segment of a layer of several segments was set to an input
\* that clamps to 100 while the other segments summed to 0, and the layer
\* sums to 100.
C7_Witness ==
  /\ last.op = "handleUpdateSegment"
  /\ \E i \in TargetLayers :
       /\ Len(last.before[i].segments) >= 2
       /\ OtherSegmentsBefore(i) = Zero
       /\ last.value = N(250)
       /\ SumPercent(config.layers[i].segments) = Hundred

\* The record without its percent.
WithoutPercent(item) == [item EXCEPT !.percent = Zero]

\* C8: a percent edit clamps its input to [0,100], gives the target the
\* clamped value, multiplies every other item's percent by
\* (100 - clamped)/otherTotal (by 0 when otherTotal = 0), and keeps length,
\* order, ids and all other fields; a segment edit leaves the other layers
\* as they were.
C8_EditRule ==
  /\ last.op = "handleUpdateSegment" =>
       /\ Len(config.layers) = Len(last.before)
       /\ \A i \in DOMAIN last.before :
            IF i \in TargetLayers
            THEN LET old == last.before[i].segments
                     new == config.layers[i].segments
                     clamped == ClampedInput(last.value)
                     factor == RescaleFactor(clamped, OtherSegmentsBefore(i))
                 IN  /\ [config.layers[i] EXCEPT !.segments = << >>] =
                          [last.before[i] EXCEPT !.segments = << >>]
                     /\ Len(new) = Len(old)
                     /\ \A k \in DOMAIN old :
                          /\ WithoutPercent(new[k]) = WithoutPercent(old[k])
                          /\ new[k].percent =
                               IF k = last.index + 1 THEN clamped
                               ELSE Mul(old[k].percent, factor)
            ELSE config.layers[i] = last.before[i]
  /\ last.op = "handleUpdateLayerPercent" =>
       /\ Len(config.layers) = Len(last.before)
       /\ \A i \in TargetLayers :
            LET clamped == ClampedInput(last.value)
                factor == RescaleFactor(clamped, OtherLayersBefore(i))
            IN  \A k \in DOMAIN last.before :
                  /\ WithoutPercent(config.layers[k]) =
                       WithoutPercent(last.before[k])
                  /\ config.layers[k].percent =
                       IF k = i THEN clamped
                       ELSE Mul(last.before[k].percent, factor)

\* C8 witness: a layer of a chart of several layers with positive percents
\* was set to 250, holds 100, and the other layers hold 0.
C8_Witness ==
  /\ last.op = "handleUpdateLayerPercent"
  /\ last.value = N(250)
  /\ Len(last.before) >= 2
  /\ \E i \in TargetLayers :
       /\ Lt(Zero, OtherLayersBefore(i))
       /\ \A k \in DOMAIN config.layers :
            config.layers[k].percent = IF k = i THEN Hundred ELSE Zero

\* C9: after a segment is added to a layer (handleAddSegment or
\* addSegment), the new segment comes last with exactly 10 percent, and
\* every segment that was there holds its old percent times
\* 90/existingTotal (0 when existingTotal = 0).
C9_AddSegmentShares ==
  last.op \in { "handleAddSegment", "addSegment" } =>
    \A i \in TargetLayers :
      LET old == last.before[i].segments
          new == config.layers[i].segments
          factor == RescaleFactor(N(10), SumPercent(old))
      IN  /\ Len(new) = Len(old) + 1
          /\ new[Len(new)].percent = N(10)
          /\ \A k \in DOMAIN old :
               /\ new[k].id = old[k].id
               /\ new[k].percent = Mul(old[k].percent, factor)

\* C10: after handleAddSegment on a layer, the layer's segment percents sum
\* to 100, also when the layer had no segments or only segments of 0.
C10_AddSegmentSumsTo100 ==
  last.op = "handleAddSegment" =>
    \A i \in TargetLayers :
      SumPercent(config.layers[i].segments) = Hundred

\* The sum of the percents, taken from the front.
RECURSIVE TotalPercent(_)
TotalPercent(segments) ==
  IF segments = << >> THEN Zero
  ELSE Add(Head(segments).percent, TotalPercent(Tail(segments)))

\* out is in with every percent replaced by its share of 100, or in itself
\* when the percents sum to 0.
IsNormalizationOf(out, in) ==
  /\ Len(out) = Len(in)
  /\ \A k \in DOMAIN in :
       /\ WithoutPercent(out[k]) = WithoutPercent(in[k])
       /\ out[k].percent =
            IF TotalPercent(in) = Zero THEN in[k].percent
            ELSE Div(Mul(in[k].percent, Hundred), TotalPercent(in))

\* C11: normalizeSegments keeps length, order and all fields but percent,
\* sets each percent to original / sum * 100, returns the input as it is
\* when the sum is 0, and its two copies give the same result.
C11_NormalizeSegments ==
  /\ Len(normLib) >= 1 => IsNormalizationOf(normLib[1], normInput)
  /\ Len(normPanel) >= 1 => IsNormalizationOf(normPanel[1], normInput)
  /\ \A k \in DOMAIN normLib \cap DOMAIN normPanel : normLib[k] = normPanel[k]

\* C11 witness: both copies were applied to two or more segments whose
\* percents sum to 0 without all being 0, and both returned them as given.
C11_Witness ==
  /\ Len(normInput) >= 2
  /\ TotalPercent(normInput) = Zero
  /\ \E k \in DOMAIN normInput : normInput[k].percent # Zero
  /\ Len(normLib) >= 1
  /\ Len(normPanel) >= 1
  /\ normLib[1] = normInput
  /\ normPanel[1] = normInput

\* Non-negative percents with a positive total.
PositiveShares(segments) ==
  /\ \A k \in DOMAIN segments : Le(Zero, segments[k].percent)
  /\ Lt(Zero, TotalPercent(segments))

\* C12: the percents of normalizeSegments(s) sum to 100 when the percents
\* of s are non-negative and their total is positive.
C12_NormalizedSumIs100 ==
  (Len(normLib) >= 1 /\ PositiveShares(normInput)) =>
    TotalPercent(normLib[1]) = Hundred

\* C12 witness: three segments with non-negative percents and a total that
\* is positive and not 100 were normalized, and the result sums to 100.
C12_Witness ==
  /\ Len(normInput) = 3
  /\ PositiveShares(normInput)
  /\ TotalPercent(normInput) # Hundred
  /\ Len(normLib) >= 1
  /\ TotalPercent(normLib[1]) = Hundred

\* C13: for segments with a positive total, normalizeSegments applied to
\* its own result gives that result again, element by element.
C13_NormalizeIdempotent ==
  (Len(normLib) >= 2 /\ Lt(Zero, TotalPercent(normInput))) =>
    normLib[2] = normLib[1]

\* C13 witness: normalizeSegments changed segments with a positive total,
\* and left its result as it was when applied again.
C13_Witness ==
  /\ Len(normLib) >= 2
  /\ Lt(Zero, TotalPercent(normInput))
  /\ normLib[1] # normInput
  /\ normLib[2] = normLib[1]

\* The sequence without its element at position j (from 1).
Without(seq, j) ==
  [k \in 1..(Len(seq) - 1) |-> IF k < j THEN seq[k] ELSE seq[k + 1]]

\* The layer at i holds what was left of its segments when the one at
\* position j was taken out, renormalized; the layer's other fields and all
\* other layers are as they were.
SegmentDeleted(i, j) ==
  LET kept == Without(last.before[i].segments, j)
      new == config.layers[i].segments
  IN  /\ Len(config.layers) = Len(last.before)
      /\ \A m \in DOMAIN last.before :
           m # i => config.layers[m] = last.before[m]
      /\ [config.layers[i] EXCEPT !.segments = << >>] =
           [last.before[i] EXCEPT !.segments = << >>]
      /\ IsNormalizationOf(new, kept)
      /\ Lt(Zero, TotalPercent(kept)) => TotalPercent(new) = Hundred

\* C14: deleting a segment, by index (handleDeleteSegment) or by id
\* (removeSegment), takes out exactly that segment, keeps the others in
\* order and renormalizes them to 100 when their total is positive; the
\* only segment of a layer can be deleted, and other layers are unchanged.
C14_DeleteSegment ==
  /\ last.op = "handleDeleteSegment" =>
       \A i \in TargetLayers : SegmentDeleted(i, last.index + 1)
  /\ last.op = "removeSegment" =>
       \A i \in TargetLayers :
         \E j \in DOMAIN last.before[i].segments :
           /\ last.before[i].segments[j].id = last.text
           /\ SegmentDeleted(i, j)

\* The point a ratio stands for: along the top edge up to 1, down the
\* right edge beyond.
PointAt(r) ==
  IF Le(r, One)
  THEN [x |-> Add(layerData.layerTopLeftX,
                  Mul(Sub(layerData.layerTopRightX, layerData.layerTopLeftX), r)),
        y |-> layerData.top]
  ELSE [x |-> layerData.layerTopRightX,
        y |-> Add(layerData.top,
                  Mul(Sub(layerData.bottom, layerData.top), Sub(r, One)))]

\* The segments handed to renderLayer have non-negative percents that sum
\* to 100.
PercentsSumTo100 ==
  /\ \A k \in DOMAIN layerData.segments :
       Le(Zero, layerData.segments[k].percent)
  /\ TotalPercent(layerData.segments) = Hundred

\* C15: with non-negative percents summing to 100, every polygon is the
\* triangle origin/start/end with both ratios <= 1, the quadrilateral
\* origin/start/top-right corner/end with start <= 1 < end, or the triangle
\* origin/start/end with both ratios > 1, its points being those the ratios
\* stand for; none has start > 1 and end <= 1.
C15_PolygonCases ==
  PercentsSumTo100 =>
    \A k \in DOMAIN segmentPolygons :
      LET s == segmentPolygons[k].startRatio
          e == segmentPolygons[k].endRatio
          origin == [x |-> layerData.layerOriginX, y |-> layerData.bottom]
          corner == [x |-> layerData.layerTopRightX, y |-> layerData.top]
          points == segmentPolygons[k].points
      IN  \/ /\ Le(s, One) /\ Le(e, One)
             /\ points = << origin, PointAt(s), PointAt(e) >>
          \/ /\ Le(s, One) /\ Lt(One, e)
             /\ points = << origin, PointAt(s), corner, PointAt(e) >>
          \/ /\ Lt(One, s) /\ Lt(One, e)
             /\ points = << origin, PointAt(s), PointAt(e) >>

\* The fan's vertical extent for the chart laid out: base minus apex.
FanSpan == Sub(Sub(geometryInput.canvasHeight, N(80)), N(40))

\* Some layer of the chart laid out defines percent.
AnyPercent ==
  \E i \in DOMAIN geometryInput.layers :
    geometryInput.layers[i].percent # Undefined

\* The weight of the layer at i: its percent (0 when it has none) if any
\* layer defines percent, its height otherwise.
Weight(i) ==
  IF AnyPercent
  THEN (IF geometryInput.layers[i].percent = Undefined THEN Zero
        ELSE geometryInput.layers[i].percent)
  ELSE geometryInput.layers[i].height

RECURSIVE WeightUpTo(_)
WeightUpTo(k) == IF k = 0 THEN Zero ELSE Add(WeightUpTo(k - 1), Weight(k))

TotalWeight == WeightUpTo(Len(geometryInput.layers))

\* C16: the layers are stacked in array order from the apex: the first top
\* is endY, each further top is the bottom before it, each height is
\* (startY - endY) * weight / totalWeight, and with a positive total weight
\* the last bottom is startY.
C16_LayersStacked ==
  /\ \A k \in DOMAIN layerBoundaries :
       /\ layerBoundaries[k].layer = geometryInput.layers[k]
       /\ layerBoundaries[k].top =
            IF k = 1 THEN N(40) ELSE layerBoundaries[k - 1].bottom
       /\ layerBoundaries[k].bottom =
            Add(layerBoundaries[k].top,
                Mul(FanSpan, Div(Weight(k), TotalWeight)))
  /\ (/\ Len(layerBoundaries) = Len(geometryInput.layers)
      /\ Len(layerBoundaries) > 0
      /\ Lt(Zero, TotalWeight)) =>
       layerBoundaries[Len(layerBoundaries)].bottom =
         Sub(geometryInput.canvasHeight, N(80))

\* C16 witness: three layers of positive weights were laid out, the second
\* and third each starting where the one before ends, down to the base.
C16_Witness ==
  /\ Len(geometryInput.layers) = 3
  /\ Len(layerBoundaries) = 3
  /\ \A k \in 1..3 : Lt(Zero, Weight(k))
  /\ Lt(layerBoundaries[1].top, layerBoundaries[2].top)
  /\ Lt(layerBoundaries[2].top, layerBoundaries[3].top)
  /\ layerBoundaries[3].bottom = Sub(geometryInput.canvasHeight, N(80))

\* C17: the weight is chosen for the whole chart: every layer's span is its
\* share by percent if any layer defines percent, by height otherwise, and
\* a layer without percent in a chart with percents has no vertical span.
C17_UniformWeight ==
  \A k \in DOMAIN layerBoundaries :
    /\ Sub(layerBoundaries[k].bottom, layerBoundaries[k].top) =
         Mul(FanSpan, Div(Weight(k), TotalWeight))
    /\ (AnyPercent /\ geometryInput.layers[k].percent = Undefined) =>
         layerBoundaries[k].bottom = layerBoundaries[k].top

\* C18: for finite non-negative inputs nothing is divided by zero: the
\* cut ratios of a layer of two or more segments are finite also when the
\* layer has zero height or zero area, and the layer boundaries are finite
\* also when the total weight of the layers is 0.
C18_NoDivisionByZero ==
  /\ (/\ Len(layerData.segments) >= 2
      /\ \A i \in DOMAIN layerData.segments :
           Le(Zero, layerData.segments[i].percent)
      /\ Le(Zero, Sub(layerData.bottom, layerData.top))
      /\ Le(Zero, Sub(layerData.layerTopRightX, layerData.layerTopLeftX))
      /\ Le(Zero, Sub(layerData.layerTopRightX, layerData.layerOriginX))) =>
       \A k \in DOMAIN segmentPolygons :
         /\ IsFinite(segmentPolygons[k].startRatio)
         /\ IsFinite(segmentPolygons[k].computedEndRatio)
  /\ \A k \in DOMAIN layerBoundaries :
       /\ IsFinite(layerBoundaries[k].top)
       /\ IsFinite(layerBoundaries[k].bottom)

\* C19: moveLayer swaps the layer at index with its neighbour and changes
\* nothing else: every layer is still there with its percent, height and
\* segments, and no change is emitted for a neighbour outside the list.
C19_MoveLayerSwaps ==
  last.op = "moveLayer" =>
    LET i == last.index + 1
        j == IF last.text = "up" THEN i - 1 ELSE i + 1
    IN  /\ i \in DOMAIN last.before
        /\ j \in DOMAIN last.before
        /\ Len(config.layers) = Len(last.before)
        /\ config.layers[i] = last.before[j]
        /\ config.layers[j] = last.before[i]
        /\ \A k \in DOMAIN last.before :
             k \notin { i, j } => config.layers[k] = last.before[k]

\* C19 witness: the first layer was moved down, and the chart starts with
\* what was its second layer, followed by what was its first.
C19_Witness ==
  /\ last.op = "moveLayer"
  /\ last.text = "down"
  /\ last.index = 0
  /\ Len(config.layers) >= 3
  /\ config.layers[1] = last.before[2]
  /\ config.layers[2] = last.before[1]
  /\ config.layers[1] # config.layers[2]

\* C20: no handler changes the configuration object it was handed: after
\* the handler the object holds the layers, segments and percents it held
\* before.
C20_SnapshotUntouched == snapshot = last.before

\* The layer handed to renderLayer is a triangle with its apex at the
\* bottom right (bottomWidth 0, positive top width and height), split
\* 50/50.
TriangleInHalves ==
  /\ layerData.layerOriginX = layerData.layerTopRightX
  /\ Lt(layerData.layerTopLeftX, layerData.layerTopRightX)
  /\ Lt(layerData.top, layerData.bottom)
  /\ Len(layerData.segments) = 2
  /\ layerData.segments[1].percent = N(50)
  /\ layerData.segments[2].percent = N(50)

\* C21: on a triangle (bottomWidth 0) split 50/50, every ratio computed by
\* renderLayer lies in [0,1], and the end ratio of the second, final
\* segment is exactly 1.
C21_TriangleRatios ==
  TriangleInHalves =>
    \A k \in DOMAIN segmentPolygons :
      /\ Le(Zero, segmentPolygons[k].startRatio)
      /\ Le(segmentPolygons[k].startRatio, One)
      /\ Le(Zero, segmentPolygons[k].endRatio)
      /\ Le(segmentPolygons[k].endRatio, One)
      /\ k = 2 => segmentPolygons[k].endRatio = One

\* C23: the area-mismatch diagnostic fires only for layers whose segment
\* percents sum to 100; non-negative percents that merely fail to sum to
\* 100 never trigger it.
C23_MismatchOnlyForTessellation ==
  \A k \in DOMAIN segmentPolygons :
    segmentPolygons[k].mismatchLogged =>
      TotalPercent(layerData.segments) = Hundred

\* C26: for non-negative percents summing to 100 on a trapezoid of positive
\* area, every segment has startRatio <= endRatio and a computed area
\* >= 0.
C26_RatiosMonotone ==
  (/\ PercentsSumTo100
   /\ Lt(Zero, Sub(layerData.bottom, layerData.top))
   /\ Le(Zero, Sub(layerData.layerTopRightX, layerData.layerTopLeftX))
   /\ Le(Zero, Sub(layerData.layerTopRightX, layerData.layerOriginX))
   /\ Lt(Zero, Add(Sub(layerData.layerTopRightX, layerData.layerTopLeftX),
                   Sub(layerData.layerTopRightX, layerData.layerOriginX)))) =>
    \A k \in DOMAIN segmentPolygons :
      /\ Le(segmentPolygons[k].startRatio, segmentPolygons[k].endRatio)
      /\ Le(Zero, segmentPolygons[k].debugSegmentArea)

\* C27: the polygons of a layer form a chain: the first starts at ratio 0,
\* the top-left corner; each later one starts at the end point of the one
\* before; and a separator is drawn, from the layer's origin to that shared
\* cut point, for every segment but the last when showDottedSeparators is
\* on, and for none otherwise.
C27_PolygonChain ==
  \A k \in DOMAIN segmentPolygons :
    /\ k = 1 =>
         /\ segmentPolygons[k].startRatio = Zero
         /\ segmentPolygons[k].startPoint =
              [x |-> layerData.layerTopLeftX, y |-> layerData.top]
    /\ k > 1 =>
         /\ segmentPolygons[k].startRatio = segmentPolygons[k - 1].endRatio
         /\ segmentPolygons[k].startPoint = segmentPolygons[k - 1].endPoint
    /\ segmentPolygons[k].separator =
         IF layerData.showDottedSeparators /\ k < Len(layerData.segments)
         THEN << [x1 |-> layerData.layerOriginX, y1 |-> layerData.bottom,
                  x2 |-> segmentPolygons[k].endPoint.x,
                  y2 |-> segmentPolygons[k].endPoint.y] >>
         ELSE << >>

\* C27 witness: three segments of a layer with separators on were drawn,
\* the cut points differ, and the two separators end on them.
C27_Witness ==
  /\ layerData.showDottedSeparators
  /\ Len(segmentPolygons) = 3
  /\ segmentPolygons[1].endPoint # segmentPolygons[2].endPoint
  /\ segmentPolygons[2].endPoint # segmentPolygons[3].endPoint
  /\ segmentPolygons[2].startPoint = segmentPolygons[1].endPoint
  /\ segmentPolygons[3].startPoint = segmentPolygons[2].endPoint
  /\ segmentPolygons[1].separator # << >>
  /\ segmentPolygons[2].separator # << >>
  /\ segmentPolygons[3].separator = << >>

\* C22: importFromJSON(exportToJSON(config)) is never null and equals
\* config, for every configuration the editor produces.
C22_ExportImportIdentity ==
  last.op = "importFromJSON" =>
    /\ last.text # "null"
    /\ config.layers = last.before

\* C24: no layer holds two segments with the same id, so that the label
\* key layer.id-segment.id names one segment.
C24_SegmentIdsUnique ==
  ~crashed =>
    \A i \in DOMAIN config.layers :
      \A j, k \in DOMAIN config.layers[i].segments :
        config.layers[i].segments[j].id = config.layers[i].segments[k].id
          => j = k

\* x lies in [0,100].
InPercentRange(x) == Le(Zero, x) /\ Le(x, Hundred)

C28_DragStateCleared == ~isDragging => draggedItem = NoDrag

\* How many segments of the layers carry the id.
RECURSIVE CountId(_, _)
CountId(layers, id) ==
  IF layers = << >> THEN 0
  ELSE CountId(Tail(layers), id) +
       Cardinality({ j \in DOMAIN Head(layers).segments :
                       Head(layers).segments[j].id = id })

\* The ids of all segments of the layers.
SegmentIds(layers) ==
  UNION { { layers[i].segments[j].id : j \in DOMAIN layers[i].segments } :
          i \in DOMAIN layers }

\* C29: a drop moves the segment picked up at drag start: the segment at
\* the dragged index of the source layer has the dragged id, it stands at
\* the target index (or last) of the target layer afterwards, and every
\* segment id occurs in the chart as often as before.
C29_DropMovesDragged ==
  last.op = "handleDrop" =>
    \E si, ti \in DOMAIN last.before :
      /\ last.before[si].id = last.dragged.layerId
      /\ last.before[ti].id = last.layerId
      /\ last.dragged.segmentIndex < Len(last.before[si].segments)
      /\ last.before[si].segments[last.dragged.segmentIndex + 1].id =
           last.dragged.segmentId
      /\ LET at == IF last.index # -1 THEN last.index + 1
                   ELSE Len(config.layers[ti].segments)
         IN  /\ at \in DOMAIN config.layers[ti].segments
             /\ config.layers[ti].segments[at].id = last.dragged.segmentId
      /\ \A id \in SegmentIds(last.before) \cup SegmentIds(config.layers) :
           CountId(config.layers, id) = CountId(last.before, id)

\* C30: the segment panel never empties the chart: handleDeleteLayer emits
\* a change only for a chart of two or more layers, and then takes out
\* exactly the layer with the given id, keeping the others in order.
C30_LastLayerKept ==
  /\ Len(config.layers) >= 1
  /\ last.op = "handleDeleteLayer" =>
       /\ Len(last.before) >= 2
       /\ \E i \in DOMAIN last.before :
            /\ last.before[i].id = last.layerId
            /\ config.layers = Without(last.before, i)

\* C30 witness: layers were deleted until one was left, the last of them.
C30_Witness ==
  /\ last.op = "handleDeleteLayer"
  /\ Len(last.before) = 2
  /\ Len(config.layers) = 1
  /\ config.layers[1] = last.before[1]
  /\ last.layerId = last.before[2].id

=============================================================================
